---- MODULE Spec2Model ----
(***************************************************************************)
(* Interview flow engine of the requirements-assistant backend             *)
(* (src/backend/app/main.py, src/backend/app/repository.py).               *)
(*                                                                         *)
(* Text is modelled as a sequence of one-character strings, so that        *)
(* str.strip() and str.lower() are computed and not assumed.  Python's     *)
(* None is the value None below, which is no text.  A dict is a function   *)
(* whose DOMAIN is the set of its keys.                                    *)
(***************************************************************************)
EXTENDS Naturals, Sequences, FiniteSets, TLC

VARIABLES QUESTIONS, SESSIONS, db, pc, req, resp, storage_log

vars == <<QUESTIONS, SESSIONS, db, pc, req, resp, storage_log>>

\* ------------------------------------------------------------------ bounds

\* Longest in-memory history a session is driven to.
MaxHist == 2

\* ------------------------------------------------------------------- text

None == <<"<None>">>

WHITESPACE == {" ", "\t", "\n"}

UPPER == <<"A","B","C","D","E","F","G","H","I","J","K","L","M",
           "N","O","P","Q","R","S","T","U","V","W","X","Y","Z","Ã">>

LOWER == <<"a","b","c","d","e","f","g","h","i","j","k","l","m",
           "n","o","p","q","r","s","t","u","v","w","x","y","z","ã">>

LowerChar(c) ==
    IF \E i \in 1..Len(UPPER) : UPPER[i] = c
    THEN LOWER[CHOOSE i \in 1..Len(UPPER) : UPPER[i] = c]
    ELSE c

\* str.lower()
Lower(s) == [i \in 1..Len(s) |-> LowerChar(s[i])]

RECURSIVE LStrip(_)
LStrip(s) ==
    IF s # <<>> /\ Head(s) \in WHITESPACE THEN LStrip(Tail(s)) ELSE s

RECURSIVE RStrip(_)
RStrip(s) ==
    IF s # <<>> /\ s[Len(s)] \in WHITESPACE
    THEN RStrip(SubSeq(s, 1, Len(s) - 1))
    ELSE s

\* str.strip()
Strip(s) == RStrip(LStrip(s))

\* Python truthiness of a value that is None, a text or a dict.
Truthy(v) == v # None /\ v # <<>>

\* a or b
Or(a, b) == IF Truthy(a) THEN a ELSE b

\* dict.get(k) of a dict whose values are texts
Get(d, k) == IF k \in DOMAIN d THEN d[k] ELSE None

\* ---------------------------------------------------------------- literals

START   == <<"s","t","a","r","t">>
FIM     == <<"f","i","m">>
Q2      == <<"q","2">>
Q3      == <<"q","3">>
GHOST   == <<"z","z">>
SIM     == <<"s","i","m">>
NAO     == <<"n","a","o">>
STAR    == <<"*">>
DEFAULT == <<"d","e","f","a","u","l","t">>
NULL    == <<"n","u","l","l">>
NONE    == <<"n","o","n","e">>
EMPTY   == <<>>

MSG_INVALID   == <<"Passo inválido no fluxo de perguntas. Reinicie a entrevista.">>
MSG_MISCONFIG == <<"Fluxo mal configurado (próximo passo não encontrado).">>
MSG_FINISHED  == <<"Entrevista finalizada!">>

\* Python's None where a dict (a JSON object) is expected.
NoneJson == [none |-> TRUE]

\* ------------------------------------------------------- question graphs
\* questions.json is data of the deployment; QUESTIONS is loaded from it once
\* and never changed.  The graphs below are the ones the engine is run on.

T1 == <<"Q","1","?">>
T2 == <<"Q","2","?">>
T3 == <<"Q","3","?">>
TF == <<"F","i","m","?">>

\* A node with an exact key and "*", and a fallback; a node with an exact
\* key only, and a fallback; a node with neither branches nor next.
GraphPrecedence ==
    (START :> [id |-> START, text |-> T1,
               branches |-> (SIM :> Q2) @@ (STAR :> Q3), next |-> FIM])
    @@ (Q2 :> [id |-> Q2, text |-> T2,
               branches |-> (SIM :> Q3), next |-> START])
    @@ (Q3 :> [id |-> Q3, text |-> T3])

\* The two-question interview: branches without wildcard and without next.
GraphInterview ==
    (START :> [id |-> START, text |-> T1,
               branches |-> (SIM :> Q2) @@ (NAO :> FIM)])
    @@ (Q2 :> [id |-> Q2, text |-> T2, next |-> FIM])

\* The alias "branch", both wildcards, targets that are no node, and a node
\* whose id is the sentinel.
GraphMisconfigured ==
    (START :> [id |-> START, text |-> T1,
               branch |-> (SIM :> GHOST) @@ (STAR :> Q2) @@ (DEFAULT :> FIM)])
    @@ (Q2 :> [id |-> Q2, text |-> T2, branch |-> <<>>,
               branches |-> (DEFAULT :> START), next |-> GHOST])
    @@ (FIM :> [id |-> FIM, text |-> TF])

\* A graph that does not define "start".
GraphNoStart ==
    (Q2 :> [id |-> Q2, text |-> T2, branches |-> (NAO :> Q3)])
    @@ (Q3 :> [id |-> Q3, text |-> T3, next |-> FIM])

Graphs == {GraphPrecedence, GraphInterview, GraphMisconfigured, GraphNoStart}

\* ----------------------------------------------------------------- inputs

SessionIds == {"s1"}

\* current_id values a client sends: absent, node ids, the sentinel, an id
\* of no node, and texts that fold to absent.
CurrentIds == {None, START, Q2, Q3, FIM, GHOST, EMPTY, <<" ","N","u","l","l">>}

\* answer values a client sends.
Answers == {None, <<" ","S","i","m">>, <<"y","e","s">>, <<"N","O","N","E"," ">>, EMPTY}

\* ------------------------------------------------------------ repository

\* Mutant: the columns of an existing row are assigned whatever is passed,
\* None included.
upsert_session_Overwrites(table, session_id, answers_json, briefing_md) ==
    IF session_id \notin DOMAIN table
    THEN table @@ (session_id :> [answers_json |-> answers_json,
                                  briefing_md |-> briefing_md])
    ELSE [table EXCEPT ![session_id] =
            [answers_json |-> answers_json, briefing_md |-> briefing_md]]

\* upsert_session(session_id, answers_json, briefing_md=None): the table
\* after the commit.  A row is [answers_json, briefing_md].
upsert_session(table, session_id, answers_json, briefing_md) ==
    IF session_id \notin DOMAIN table
    THEN table @@ (session_id :> [answers_json |-> answers_json,
                                  briefing_md |-> briefing_md])
    ELSE [table EXCEPT ![session_id] =
            [answers_json |-> IF answers_json # NoneJson
                              THEN answers_json ELSE @.answers_json,
             briefing_md  |-> IF briefing_md # None
                              THEN briefing_md ELSE @.briefing_md]]

\* ------------------------------------------------------------ flow engine

\* Mutant: the text is lower-cased but not stripped before the comparison.
FoldNull_NoStrip(v) ==
    IF v # None /\ Lower(v) \in {EMPTY, NULL, NONE} THEN None ELSE v

\* "null" / "none" / "" (any case, surrounding whitespace ignored) -> None
FoldNull(v) ==
    IF v # None /\ Lower(Strip(v)) \in {EMPTY, NULL, NONE} THEN None ELSE v

\* SESSIONS.setdefault(session_id, [])
SetDefault(sessions, session_id) ==
    IF session_id \in DOMAIN sessions
    THEN sessions
    ELSE sessions @@ (session_id :> <<>>)

\* Mutant: the normalized answer is stored instead of the raw one.
HistoryEntry_Normalized(graph, cid, ans) ==
    [id |-> cid, question |-> graph[cid].text, answer |-> Lower(Strip(ans))]

\* The history entry of an answer given to node cid.
HistoryEntry(graph, cid, ans) ==
    [id |-> cid, question |-> graph[cid].text, answer |-> ans]

\* Mutant: the history is assigned, not appended to.
AppendHistory_Assigns(history, entry) == <<entry>>

\* SESSIONS[session_id].append(entry)
AppendHistory(history, entry) == Append(history, entry)

\* The answer is recorded iff it is present and cid is a key of QUESTIONS.
Records(graph, cid, ans) == ans # None /\ cid \in DOMAIN graph

\* ans_norm = (ans or "").strip().lower()
AnsNorm(ans) == Lower(Strip(Or(ans, EMPTY)))

\* curr.get("branch") or curr.get("branches"), when that is a dict; the
\* empty dict otherwise (every lookup in it misses, as when the branch
\* step is skipped).
BranchTable(curr) ==
    IF "branch" \in DOMAIN curr /\ DOMAIN curr.branch # {}
    THEN curr.branch
    ELSE IF "branches" \in DOMAIN curr THEN curr.branches ELSE <<>>

\* Mutant: the wildcards are tried before the exact key.
BranchNext_WildcardFirst(curr, ans_norm) ==
    LET branch == IF "branch" \in DOMAIN curr /\ DOMAIN curr.branch # {}
                  THEN curr.branch
                  ELSE IF "branches" \in DOMAIN curr THEN curr.branches ELSE <<>>
    IN  IF Truthy(ans_norm)
        THEN Or(Or(Get(branch, STAR), Get(branch, DEFAULT)), Get(branch, ans_norm))
        ELSE None

\* Mutant: an empty normalized answer still tries the wildcard keys.
BranchNext_WildcardOnEmpty(curr, ans_norm) ==
    IF Truthy(ans_norm)
    THEN Or(Or(Get(BranchTable(curr), ans_norm), Get(BranchTable(curr), STAR)),
            Get(BranchTable(curr), DEFAULT))
    ELSE Or(Get(BranchTable(curr), STAR), Get(BranchTable(curr), DEFAULT))

\* next_id after step 1: the exact key, then "*", then "default".
BranchNext(curr, ans_norm) ==
    IF Truthy(ans_norm)
    THEN Or(Or(Get(BranchTable(curr), ans_norm), Get(BranchTable(curr), STAR)),
            Get(BranchTable(curr), DEFAULT))
    ELSE None

\* next_id after step 2: the fallback "next".
FallbackNext(curr, next_id) ==
    IF ~Truthy(next_id) THEN Get(curr, "next") ELSE next_id

\* next_id after step 3: forced to "fim".
ForceEnd(next_id) == IF ~Truthy(next_id) THEN FIM ELSE next_id

\* The next id decided for node curr and the folded answer.
ResolveNext(curr, ans) ==
    ForceEnd(FallbackNext(curr, BranchNext(curr, AnsNorm(ans))))

Response(message, next_id, done) ==
    [kind |-> "response", message |-> message, next_id |-> next_id, done |-> done]

\* An exception that leaves the handler (HTTP 500).
Raised == [kind |-> "raised", message |-> None, next_id |-> None, done |-> FALSE]

\* Mutant: a graph without "start" is answered with the end of the interview.
StartResponse_Tolerant(graph) ==
    IF START \in DOMAIN graph
    THEN Response(graph[START].text, START, FALSE)
    ELSE Response(MSG_FINISHED, FIM, TRUE)

\* Mutant: the first question is returned without its id.
StartResponse_NullNextId(graph) ==
    IF START \in DOMAIN graph
    THEN Response(graph[START].text, None, FALSE)
    ELSE Raised

\* The response of the first question, or the TypeError of first["text"]
\* when QUESTIONS.get("start") is None.
StartResponse(graph) ==
    IF START \in DOMAIN graph
    THEN Response(graph[START].text, START, FALSE)
    ELSE Raised

\* Mutant: the invalid step is not reported as terminal.
InvalidStep_NotDone == Response(MSG_INVALID, None, FALSE)

InvalidStep == Response(MSG_INVALID, None, TRUE)

MisconfiguredFlow == Response(MSG_MISCONFIG, None, TRUE)

\* Mutant: the sentinel is looked up in the graph like any other id.
StepResponse_LooksUpSentinel(graph, next_id) ==
    IF next_id \in DOMAIN graph
    THEN Response(graph[next_id].text, next_id, FALSE)
    ELSE IF next_id = FIM THEN Response(MSG_FINISHED, FIM, TRUE)
    ELSE Response(MSG_MISCONFIG, None, TRUE)

\* Mutant: the missing node is not checked for, and nxt["text"] raises.
StepResponse_NoCheck(graph, next_id) ==
    IF next_id # FIM /\ next_id \notin DOMAIN graph
    THEN Raised
    ELSE Response(IF next_id = FIM THEN MSG_FINISHED ELSE graph[next_id].text,
                  next_id, next_id = FIM)

\* Mutant: the end of the interview is returned with a null next_id.
StepResponse_NullAtEnd(graph, next_id) ==
    IF next_id # FIM /\ next_id \notin DOMAIN graph
    THEN Response(MSG_MISCONFIG, None, TRUE)
    ELSE IF next_id = FIM THEN Response(MSG_FINISHED, None, TRUE)
    ELSE Response(graph[next_id].text, next_id, FALSE)

\* The response once next_id is decided: misconfigured when it is neither
\* "fim" nor a node, else the end or the next question.
StepResponse(graph, next_id) ==
    IF next_id # FIM /\ next_id \notin DOMAIN graph
    THEN MisconfiguredFlow
    ELSE Response(IF next_id = FIM THEN MSG_FINISHED ELSE graph[next_id].text,
                  next_id, next_id = FIM)

\* The snapshot written after a step.
Snapshot(next_id, done, history) ==
    [current_id |-> next_id, done |-> done, history |-> history]

\* True iff the handler reaches the persistence block.
Persists(graph, cid, ans) ==
    /\ Truthy(cid)
    /\ cid \in DOMAIN graph
    /\ StepResponse(graph, ResolveNext(graph[cid], ans)) # MisconfiguredFlow

\* Mutant: the exception of a failed upsert leaves the handler.
AfterPersistence_Propagates(out, save, storage_ok) ==
    IF save /\ ~storage_ok THEN Raised ELSE out

\* try: upsert_session(...) except Exception: pass -- the response computed
\* before the persistence block is returned whatever the upsert did.
AfterPersistence(out, save, storage_ok) == out

\* interview_next(req) run on sessions and table: the response and the
\* state it leaves.  storage_ok = FALSE is an upsert that raises.
interview_next(graph, sessions, table, session_id, current_id, answer, storage_ok) ==
    LET cid  == FoldNull(current_id)
        ans  == FoldNull(answer)
        s0   == SetDefault(sessions, session_id)
        s1   == IF Records(graph, cid, ans)
                THEN [s0 EXCEPT ![session_id] =
                         AppendHistory(@, HistoryEntry(graph, cid, ans))]
                ELSE s0
        out  == IF ~Truthy(cid) THEN StartResponse(graph)
                ELSE IF cid \notin DOMAIN graph THEN InvalidStep
                ELSE StepResponse(graph, ResolveNext(graph[cid], ans))
        save == Persists(graph, cid, ans)
    IN  [SESSIONS |-> s1,
         db |-> IF save /\ storage_ok
                THEN upsert_session(table, session_id,
                        Snapshot(out.next_id, out.done, s1[session_id]), None)
                ELSE table,
         resp |-> AfterPersistence(out, save, storage_ok),
         storage_log |-> IF save
                         THEN <<IF storage_ok THEN "upsert" ELSE "upsert_failed">>
                         ELSE <<>>]

\* Mutant: every session is removed (SESSIONS.clear()).
reset_session_ClearsAll(sessions, session_id) == <<>>

\* Mutant: nothing is removed.
reset_session_Keeps(sessions, session_id) == sessions

\* reset_session(req): SESSIONS.pop(session_id, None)
reset_session(sessions, session_id) ==
    [s \in DOMAIN sessions \ {session_id} |-> sessions[s]]

\* --------------------------------------------------------------- briefing

DIGITS == <<"0","1","2","3","4","5","6","7","8","9">>

\* str(n) of a natural number
RECURSIVE Decimal(_)
Decimal(n) ==
    IF n < 10 THEN <<DIGITS[n + 1]>>
    ELSE Decimal(n \div 10) \o <<DIGITS[(n % 10) + 1]>>

\* "\n".join(lines)
RECURSIVE Join(_)
Join(lines) ==
    IF lines = <<>> THEN <<>>
    ELSE IF Len(lines) = 1 THEN lines[1]
    ELSE lines[1] \o <<"\n">> \o Join(Tail(lines))

HEADING_PREFIX == <<"#","#","#"," ">>

ANSWER_PREFIX ==
    <<"-"," ","R","e","s","p","o","s","t","a"," ",
      "r","e","g","i","s","t","r","a","d","a",":"," ">>

\* The grave accent, which a string of this language cannot hold.
BACKTICK == "(grave accent)"

PLACEHOLDER == <<"_Nenhuma resposta foi registrada para esta sessão._">>

\* The lines before the entries.
BriefingHeader(session_id) ==
    << <<"# ATA da Entrevista de Levantamento de Requisitos">>,
       <<>>,
       <<"Sessão registrada: ", BACKTICK, session_id, BACKTICK>>,
       <<>>,
       <<"## 1. Informações gerais">>,
       <<"Aqui eu junto, de forma organizada, as respostas que foram dadas na entrevista inicial.">>,
       <<>>,
       <<"## 2. Perguntas e respostas">> >>

\* The lines after the entries.
BriefingFooter ==
    << <<"## 3. Observações finais">>,
       <<"Esta ATA foi gerada automaticamente a partir dos dados coletados pelo protótipo de assistente virtual para apoio à Engenharia de Requisitos, desenvolvido como Trabalho de Conclusão de Curso.">>,
       <<>>,
       <<"---">>,
       <<"Relatório montado a partir da entrevista realizada no sistema de apoio ao levantamento de requisitos.">> >>

\* Mutant: the question and the answer are written as recorded.
EntryLines_Raw(i, item) ==
    << HEADING_PREFIX \o Decimal(i) \o <<"."," ">> \o item.question,
       ANSWER_PREFIX \o item.answer,
       <<>> >>

\* The three lines of entry number i.
EntryLines(i, item) ==
    << HEADING_PREFIX \o Decimal(i) \o <<"."," ">> \o Strip(item.question),
       ANSWER_PREFIX \o Strip(item.answer),
       <<>> >>

\* The lines of the entries i.. of qa, numbered from i.
RECURSIVE EntriesLines(_, _)
EntriesLines(i, qa) ==
    IF qa = <<>> THEN <<>>
    ELSE EntryLines(i, Head(qa)) \o EntriesLines(i + 1, Tail(qa))

\* Mutant: the in-memory history is preferred to the stored one.
BriefingSource_MemoryFirst(sessions, table, session_id) ==
    LET mem == IF session_id \in DOMAIN sessions THEN sessions[session_id] ELSE <<>>
    IN  IF mem # <<>> THEN mem
        ELSE IF session_id \in DOMAIN table
                /\ table[session_id].answers_json # NoneJson
        THEN table[session_id].answers_json.history
        ELSE <<>>

\* The history the briefing is built from: answers_json["history"] of the
\* row when that is a non-empty list, else SESSIONS.get(session_id, []).
BriefingSource(sessions, table, session_id) ==
    LET qa == IF session_id \in DOMAIN table
                 /\ table[session_id].answers_json # NoneJson
              THEN table[session_id].answers_json.history
              ELSE <<>>
    IN  IF qa # <<>> THEN qa
        ELSE IF session_id \in DOMAIN sessions THEN sessions[session_id] ELSE <<>>

\* The markdown of the history qa.
RenderMarkdown(session_id, qa) ==
    Join(BriefingHeader(session_id)
         \o (IF qa = <<>> THEN <<PLACEHOLDER>> ELSE EntriesLines(1, qa))
         \o BriefingFooter)

\* build_briefing_md(session_id): the markdown, or the exception of a
\* get_session_by_id that fails (read_ok = FALSE).
build_briefing_md(sessions, table, session_id, read_ok) ==
    IF read_ok
    THEN [kind |-> "briefing",
          message |-> RenderMarkdown(session_id,
                          BriefingSource(sessions, table, session_id)),
          next_id |-> None, done |-> FALSE]
    ELSE Raised

\* make_briefing(req): the markdown is built, then stored with
\* answers_json=None; a failed upsert (write_ok = FALSE) is swallowed.
make_briefing(sessions, table, session_id, read_ok, write_ok) ==
    LET md == build_briefing_md(sessions, table, session_id, read_ok)
    IN  [db |-> IF read_ok /\ write_ok
                THEN upsert_session(table, session_id, NoneJson, md.message)
                ELSE table,
         resp |-> md,
         storage_log |-> IF ~read_ok THEN <<"read_failed">>
                         ELSE <<"read", IF write_ok THEN "upsert" ELSE "upsert_failed">>]

\* ---------------------------------------------------------------- actions
\* One request is served at a time: a client sends it (pc = "pending"), the
\* handler runs to its end (pc = "done"), the client takes the response
\* (pc = "idle").

Ack == [kind |-> "ok", message |-> None, next_id |-> None, done |-> FALSE]

NoResponse == [kind |-> "none", message |-> None, next_id |-> None, done |-> FALSE]

NoRequest == [op |-> "none", session_id |-> "", current_id |-> None, answer |-> None]

Init ==
    /\ QUESTIONS \in Graphs
    /\ SESSIONS = <<>>
    /\ db = <<>>
    /\ pc = "idle"
    /\ req = NoRequest
    /\ resp = NoResponse
    /\ storage_log = <<>>

\* The in-memory history of a session ([] when it has none).
HistoryOf(sessions, session_id) ==
    IF session_id \in DOMAIN sessions THEN sessions[session_id] ELSE <<>>

\* A client posts NextRequest(session_id, current_id, answer).
SendNext(session_id, current_id, answer) ==
    /\ pc = "idle"
    /\ Records(QUESTIONS, FoldNull(current_id), FoldNull(answer))
          => Len(HistoryOf(SESSIONS, session_id)) < MaxHist
    /\ pc' = "pending"
    /\ req' = [op |-> "next", session_id |-> session_id,
               current_id |-> current_id, answer |-> answer]
    /\ UNCHANGED <<QUESTIONS, SESSIONS, db, resp, storage_log>>

\* A client posts BriefingRequest(session_id) to /reset.
SendReset(session_id) ==
    /\ pc = "idle"
    /\ pc' = "pending"
    /\ req' = [op |-> "reset", session_id |-> session_id,
               current_id |-> None, answer |-> None]
    /\ UNCHANGED <<QUESTIONS, SESSIONS, db, resp, storage_log>>

\* A client posts BriefingRequest(session_id) to /briefing.
SendBriefing(session_id) ==
    /\ pc = "idle"
    /\ pc' = "pending"
    /\ req' = [op |-> "briefing", session_id |-> session_id,
               current_id |-> None, answer |-> None]
    /\ UNCHANGED <<QUESTIONS, SESSIONS, db, resp, storage_log>>

\* POST /briefing
MakeBriefing(read_ok, write_ok) ==
    /\ pc = "pending"
    /\ req.op = "briefing"
    /\ LET r == make_briefing(SESSIONS, db, req.session_id, read_ok, write_ok)
       IN  /\ db' = r.db
           /\ resp' = r.resp
           /\ storage_log' = r.storage_log
    /\ pc' = "done"
    /\ UNCHANGED <<QUESTIONS, SESSIONS, req>>

\* POST /interview/next
InterviewNext(storage_ok) ==
    /\ pc = "pending"
    /\ req.op = "next"
    /\ LET r == interview_next(QUESTIONS, SESSIONS, db, req.session_id,
                               req.current_id, req.answer, storage_ok)
       IN  /\ SESSIONS' = r.SESSIONS
           /\ db' = r.db
           /\ resp' = r.resp
           /\ storage_log' = r.storage_log
    /\ pc' = "done"
    /\ UNCHANGED <<QUESTIONS, req>>

\* POST /reset
ResetSession ==
    /\ pc = "pending"
    /\ req.op = "reset"
    /\ SESSIONS' = reset_session(SESSIONS, req.session_id)
    /\ resp' = Ack
    /\ storage_log' = <<>>
    /\ pc' = "done"
    /\ UNCHANGED <<QUESTIONS, db, req>>

\* The client takes the response.
Deliver ==
    /\ pc = "done"
    /\ pc' = "idle"
    /\ req' = NoRequest
    /\ resp' = NoResponse
    /\ storage_log' = <<>>
    /\ UNCHANGED <<QUESTIONS, SESSIONS, db>>

Next ==
    \/ \E sid \in SessionIds, cid \in CurrentIds, ans \in Answers :
          SendNext(sid, cid, ans)
    \/ \E sid \in SessionIds : SendReset(sid)
    \/ InterviewNext(TRUE)
    \/ ResetSession
    \/ Deliver

Spec == Init /\ [][Next]_vars

\* -------------------------------------------- storage faults and briefings
\* The same handlers with a table that may fail, and the briefing route,
\* on the two-question interview and the misconfigured graph.

StorageGraphs == {GraphInterview, GraphMisconfigured}

StorageCurrentIds == {None, START, Q2}

StorageAnswers == {None, <<" ","S","i","m">>}

InitStorage ==
    /\ QUESTIONS \in StorageGraphs
    /\ SESSIONS = <<>>
    /\ db = <<>>
    /\ pc = "idle"
    /\ req = NoRequest
    /\ resp = NoResponse
    /\ storage_log = <<>>

NextStorage ==
    \/ \E sid \in SessionIds, cid \in StorageCurrentIds, ans \in StorageAnswers :
          SendNext(sid, cid, ans)
    \/ \E sid \in SessionIds : SendReset(sid)
    \/ \E sid \in SessionIds : SendBriefing(sid)
    \/ \E ok \in BOOLEAN : InterviewNext(ok)
    \/ \E read_ok \in BOOLEAN, write_ok \in BOOLEAN : MakeBriefing(read_ok, write_ok)
    \/ ResetSession
    \/ Deliver

SpecStorage == InitStorage /\ [][NextStorage]_vars

\* ------------------------------------------------- the two-question trace
\* One client on the two-question interview, answering "sim" or "qualquer".

QUALQUER == <<"q","u","a","l","q","u","e","r">>

TraceCurrentIds == {None, START, Q2}

TraceAnswers == {None, SIM, QUALQUER}

InitTrace ==
    /\ QUESTIONS = GraphInterview
    /\ SESSIONS = <<>>
    /\ db = <<>>
    /\ pc = "idle"
    /\ req = NoRequest
    /\ resp = NoResponse
    /\ storage_log = <<>>

NextTrace ==
    \/ \E sid \in SessionIds, cid \in TraceCurrentIds, ans \in TraceAnswers :
          SendNext(sid, cid, ans)
    \/ \E sid \in SessionIds : SendReset(sid)
    \/ InterviewNext(TRUE)
    \/ ResetSession
    \/ Deliver

SpecTrace == InitTrace /\ [][NextTrace]_vars

\* ------------------------------------------------------------ two sessions
\* Two clients, each with its own session id, whose requests are served in
\* any order on the two-question interview. The client of "s1" answers
\* "sim" and the client of "s2" answers "nao", so that an entry tells the
\* session it was recorded for.

TwoSessionIds == {"s1", "s2"}

TwoCurrentIds == {None, START}

TwoAnswerOf(session_id) == IF session_id = "s1" THEN SIM ELSE NAO

InitTwo ==
    /\ QUESTIONS = GraphInterview
    /\ SESSIONS = <<>>
    /\ db = <<>>
    /\ pc = "idle"
    /\ req = NoRequest
    /\ resp = NoResponse
    /\ storage_log = <<>>

NextTwo ==
    \/ \E sid \in TwoSessionIds, cid \in TwoCurrentIds :
          SendNext(sid, cid, TwoAnswerOf(sid))
    \/ \E sid \in TwoSessionIds : SendReset(sid)
    \/ \E sid \in TwoSessionIds : SendBriefing(sid)
    \/ InterviewNext(TRUE)
    \/ MakeBriefing(TRUE, TRUE)
    \/ ResetSession
    \/ Deliver

SpecTwo == InitTwo /\ [][NextTwo]_vars

\* ---------------------------------------------------------- one interview
\* One client that never resets: every call it makes belongs to the same
\* interview of its session id.

NextOneInterview ==
    \/ \E sid \in SessionIds, cid \in CurrentIds, ans \in Answers :
          SendNext(sid, cid, ans)
    \/ InterviewNext(TRUE)
    \/ Deliver

SpecOneInterview == Init /\ [][NextOneInterview]_vars

\* ------------------------------------------- a reset during an advance
\* The handlers are plain functions, which the server runs in worker
\* threads: a /reset of a session can run between two statements of an
\* /interview/next of the same session.  The advance is split at the
\* statements that read or write SESSIONS: the setdefault, the append, and
\* the snapshot.

\* SESSIONS.get(session_id) of a session that has no entry: the None that
\* the snapshot then carries as its history.
NoneList == <<NoneJson>>

\* The response interview_next computes from the request alone.
StepOutcome(graph, current_id, answer) ==
    LET cid == FoldNull(current_id)
        ans == FoldNull(answer)
    IN  IF ~Truthy(cid) THEN StartResponse(graph)
        ELSE IF cid \notin DOMAIN graph THEN InvalidStep
        ELSE StepResponse(graph, ResolveNext(graph[cid], ans))

\* SESSIONS.setdefault(req.session_id, [])
RaceCreate ==
    /\ pc = "pending"
    /\ req.op = "next"
    /\ SESSIONS' = SetDefault(SESSIONS, req.session_id)
    /\ pc' = "created"
    /\ UNCHANGED <<QUESTIONS, db, req, resp, storage_log>>

\* Another thread serves /reset for the session of the advance in flight.
RaceReset ==
    /\ pc \in {"created", "appended"}
    /\ req.session_id \in DOMAIN SESSIONS
    /\ SESSIONS' = reset_session(SESSIONS, req.session_id)
    /\ UNCHANGED <<QUESTIONS, db, pc, req, resp, storage_log>>

\* SESSIONS[req.session_id].append(...): a KeyError when the entry is gone.
RaceAppend ==
    /\ pc = "created"
    /\ LET cid == FoldNull(req.current_id)
           ans == FoldNull(req.answer)
       IN  IF Records(QUESTIONS, cid, ans)
           THEN IF req.session_id \in DOMAIN SESSIONS
                THEN /\ SESSIONS' = [SESSIONS EXCEPT ![req.session_id] =
                            AppendHistory(@, HistoryEntry(QUESTIONS, cid, ans))]
                     /\ pc' = "appended"
                     /\ resp' = resp
                ELSE /\ SESSIONS' = SESSIONS
                     /\ pc' = "done"
                     /\ resp' = Raised
           ELSE /\ SESSIONS' = SESSIONS
                /\ pc' = "appended"
                /\ resp' = resp
    /\ UNCHANGED <<QUESTIONS, db, req, storage_log>>

\* The rest of the handler: the response is decided and, on the paths that
\* reach the persistence block, the snapshot is written with
\* SESSIONS.get(req.session_id) as its history.
RaceRespond ==
    /\ pc = "appended"
    /\ LET cid  == FoldNull(req.current_id)
           ans  == FoldNull(req.answer)
           out  == StepOutcome(QUESTIONS, req.current_id, req.answer)
           save == Persists(QUESTIONS, cid, ans)
           hist == IF req.session_id \in DOMAIN SESSIONS
                   THEN SESSIONS[req.session_id] ELSE NoneList
       IN  /\ db' = IF save
                    THEN upsert_session(db, req.session_id,
                             Snapshot(out.next_id, out.done, hist), None)
                    ELSE db
           /\ resp' = out
           /\ storage_log' = IF save THEN <<"upsert">> ELSE <<>>
    /\ pc' = "done"
    /\ UNCHANGED <<QUESTIONS, SESSIONS, req>>

NextRace ==
    \/ \E sid \in SessionIds, cid \in TraceCurrentIds, ans \in TraceAnswers :
          SendNext(sid, cid, ans)
    \/ RaceCreate
    \/ RaceReset
    \/ RaceAppend
    \/ RaceRespond
    \/ Deliver

SpecRace == InitTrace /\ [][NextRace]_vars

\* ----------------------------------------------------------------- claims

\* The handler of /interview/next has just run on req.
Handled == pc = "done" /\ req.op = "next"

\* The handler of /interview/next is running on req in this step.
Handling == pc = "pending" /\ req.op = "next" /\ pc' = "done"

\* The texts a client sends that read "", "null" or "none" in some letter
\* case, with or without surrounding whitespace.
NullLiteralTexts ==
    {EMPTY, NULL, NONE, <<" ">>, <<" ","N","u","l","l">>, <<"N","O","N","E"," ">>}

Absent(v) == v = None \/ v \in NullLiteralTexts

\* The request names a node of the graph and carries an answer.
KnownNode == ~Absent(req.current_id) /\ req.current_id \in DOMAIN QUESTIONS

\* The branch table of the current node ("branch" or "branches"), empty
\* when the node has none.
TableOfCurrent == BranchTable(QUESTIONS[req.current_id])

\* The answer as the branch lookup sees it: trimmed and lower-cased.
AnswerKey == Lower(Strip(req.answer))

\* What the caller sees of a resolved next id x: x when it is the sentinel
\* or a node, null when the flow is misconfigured.
Surfaced(x) == IF x = FIM \/ x \in DOMAIN QUESTIONS THEN x ELSE None

\* C1: advance with an absent current_id, on a graph that defines "start",
\* returns the prompt of "start", next_id = "start" and done = false,
\* whatever the answer and the session.
C1_StartResponse ==
    (Handled /\ req.current_id = None /\ START \in DOMAIN QUESTIONS)
        => /\ resp.kind = "response"
           /\ resp.message = QUESTIONS[START].text
           /\ resp.next_id = START
           /\ resp.done = FALSE

\* C1 witness: a start call that carries an answer, on a session that
\* already has history.
C1_Witness ==
    /\ Handled /\ req.current_id = None /\ req.answer = <<" ","S","i","m">>
    /\ HistoryOf(SESSIONS, req.session_id) # <<>>
    /\ resp.next_id = START

\* C2: precedence of the branch resolution on a known node with a non-empty
\* normalized answer: the exact key, else "*" or "default", else the
\* fallback "next".
C2_BranchPrecedence ==
    (Handled /\ KnownNode /\ ~Absent(req.answer))
        => LET node == QUESTIONS[req.current_id]
               t == TableOfCurrent
           IN  IF AnswerKey \in DOMAIN t
               THEN resp.next_id = Surfaced(t[AnswerKey])
               ELSE IF STAR \in DOMAIN t \/ DEFAULT \in DOMAIN t
               THEN resp.next_id \in {Surfaced(t[k]) : k \in {STAR, DEFAULT} \cap DOMAIN t}
               ELSE "next" \in DOMAIN node => resp.next_id = Surfaced(node.next)

\* C2 witness: the wildcard is taken although the node has a fallback, on
\* the node {"sim": q2, "*": q3}, next "fim".
C2_Witness ==
    /\ Handled /\ QUESTIONS = GraphPrecedence
    /\ req.current_id = START /\ req.answer = <<"y","e","s">>
    /\ resp.next_id = Q3

\* C3: on a known node with no matching key, no wildcard and no fallback,
\* the response is the end of the interview, next_id = "fim", done = true,
\* also when the graph holds a node whose id is "fim".
C3_SentinelWhenNothingResolves ==
    (Handled /\ KnownNode /\ "next" \notin DOMAIN QUESTIONS[req.current_id]
        /\ (Absent(req.answer) \/ AnswerKey \notin DOMAIN TableOfCurrent)
        /\ STAR \notin DOMAIN TableOfCurrent
        /\ DEFAULT \notin DOMAIN TableOfCurrent)
        => resp = [kind |-> "response", message |-> MSG_FINISHED,
                   next_id |-> FIM, done |-> TRUE]

\* C3 witness: the node has neither branches nor next and the graph holds a
\* node "fim".
C3_Witness ==
    /\ Handled /\ FIM \in DOMAIN QUESTIONS /\ KnownNode
    /\ DOMAIN QUESTIONS[req.current_id] = {"id", "text"}
    /\ resp.next_id = FIM /\ resp.done

\* C4: advance appends exactly {current_id, prompt, raw answer} when the
\* answer is present and current_id is a node, and leaves the history as it
\* was in every other call.
C4_AppendIffAnsweredKnownNode ==
    [][Handling =>
        LET before == HistoryOf(SESSIONS, req.session_id)
            after  == HistoryOf(SESSIONS', req.session_id)
        IN  IF ~Absent(req.answer) /\ KnownNode
            THEN after = Append(before,
                            [id |-> req.current_id,
                             question |-> QUESTIONS[req.current_id].text,
                             answer |-> req.answer])
            ELSE after = before]_vars

\* C4 witness: the recorded answer is the raw text " Sim", not "sim".
C4_Witness ==
    /\ Handled /\ req.answer = <<" ","S","i","m">>
    /\ LET h == HistoryOf(SESSIONS, req.session_id)
       IN  /\ Len(h) = 2
           /\ h[2] = [id |-> req.current_id,
                      question |-> QUESTIONS[req.current_id].text,
                      answer |-> <<" ","S","i","m">>]

IsPrefix(a, b) == Len(a) <= Len(b) /\ SubSeq(b, 1, Len(a)) = a

\* C5: history order is call order: in every step that is not a reset, the
\* history of each session before the step is a prefix of its history after.
C5_HistoryGrowsAtTheEnd ==
    [][~(pc = "pending" /\ req.op = "reset") =>
        \A sid \in SessionIds :
            IsPrefix(HistoryOf(SESSIONS, sid), HistoryOf(SESSIONS', sid))]_vars

\* C5 witness: two different entries, the second one recorded by the call
\* that has just run.
C5_Witness ==
    /\ Handled /\ KnownNode /\ ~Absent(req.answer)
    /\ LET h == HistoryOf(SESSIONS, req.session_id)
       IN  /\ Len(h) = 2
           /\ h[1] # h[2]
           /\ h[2].id = req.current_id /\ h[2].answer = req.answer

\* C6: advance with a present current_id that is no node returns the
\* invalid-step response, done = true and next_id = null, whatever the
\* answer; nothing is raised and no snapshot is upserted.
C6_InvalidStep ==
    (Handled /\ ~Absent(req.current_id) /\ req.current_id \notin DOMAIN QUESTIONS)
        => /\ resp = [kind |-> "response", message |-> MSG_INVALID,
                      next_id |-> None, done |-> TRUE]
           /\ storage_log = <<>>

\* C6 witness: an unknown current_id sent with an answer, on a session whose
\* snapshot is in the table.
C6_Witness ==
    /\ Handled /\ req.current_id = GHOST /\ req.answer = <<"y","e","s">>
    /\ req.session_id \in DOMAIN db
    /\ resp.message = MSG_INVALID

\* C7: when the next id resolved from a branch, a wildcard or the fallback
\* is neither "fim" nor a node, advance returns the misconfigured-flow
\* response, done = true and next_id = null, and raises nothing.
C7_MisconfiguredFlow ==
    (Handled /\ KnownNode
        /\ LET n == ResolveNext(QUESTIONS[req.current_id], FoldNull(req.answer))
           IN  n # FIM /\ n \notin DOMAIN QUESTIONS)
        => resp = [kind |-> "response", message |-> MSG_MISCONFIG,
                   next_id |-> None, done |-> TRUE]

\* C7 witness: the branch "sim" names a node the graph does not hold.
C7_Witness ==
    /\ Handled /\ QUESTIONS = GraphMisconfigured
    /\ req.current_id = START /\ req.answer = <<" ","S","i","m">>
    /\ resp.message = MSG_MISCONFIG

AFFIRMATIVE ==
    {SIM, <<"s">>, <<"y","e","s">>, <<"y">>, <<"t","r","u","e">>,
     <<"v","e","r","d","a","d","e","i","r","o">>}

NEGATIVE ==
    {NAO, <<"n","ã","o">>, <<"n">>, <<"n","o">>, <<"f","a","l","s","e">>,
     <<"f","a","l","s","o">>}

\* C8: on a node whose branch table has the keys "sim" and "nao", every
\* affirmative synonym resolves to the target of "sim" and every negative
\* synonym to the target of "nao".
C8_SynonymsResolveAsCanonical ==
    (Handled /\ KnownNode /\ ~Absent(req.answer)
        /\ {SIM, NAO} \subseteq DOMAIN TableOfCurrent)
        => /\ AnswerKey \in AFFIRMATIVE
                => resp.next_id = Surfaced(TableOfCurrent[SIM])
           /\ AnswerKey \in NEGATIVE
                => resp.next_id = Surfaced(TableOfCurrent[NAO])

\* The argument as the handler is to read it: null for a null literal.
Nulled(v) == IF v \in NullLiteralTexts THEN None ELSE v

\* C9: a call whose current_id or answer is "", "null" or "none" in any
\* letter case, whitespace around it ignored, has the response and the
\* effect on history and snapshot of the same call with that argument null.
C9_NullLiteralsAreAbsent ==
    [][(Handling /\ (req.current_id \in NullLiteralTexts
                        \/ req.answer \in NullLiteralTexts)) =>
        LET r == interview_next(QUESTIONS, SESSIONS, db, req.session_id,
                                Nulled(req.current_id), Nulled(req.answer),
                                storage_log' # <<"upsert_failed">>)
        IN  /\ resp' = r.resp
            /\ SESSIONS' = r.SESSIONS
            /\ db' = r.db]_vars

\* C9 witness: the answer "NONE " to a known node is not recorded and the
\* fallback of the node is followed.
C9_Witness ==
    /\ Handled /\ KnownNode /\ req.answer = <<"N","O","N","E"," ">>
    /\ HistoryOf(SESSIONS, req.session_id) = <<>>
    /\ resp.kind = "response" /\ resp.next_id # None

\* C10: in every advance response, done holds exactly when next_id is "fim"
\* or null; a next id resolved to the sentinel is returned as "fim"; and
\* when done is false next_id is a node and message is its prompt.
C10_ResponseCoherence ==
    (Handled /\ resp.kind = "response")
        => /\ resp.done <=> resp.next_id \in {FIM, None}
           /\ (KnownNode /\ ResolveNext(QUESTIONS[req.current_id],
                                        FoldNull(req.answer)) = FIM)
                => resp.next_id = FIM
           /\ ~resp.done
                => /\ resp.next_id \in DOMAIN QUESTIONS
                   /\ resp.message = QUESTIONS[resp.next_id].text

\* C10 witness: the interview ends on a graph that holds a node "fim".
C10_Witness ==
    /\ Handled /\ FIM \in DOMAIN QUESTIONS
    /\ resp.kind = "response" /\ resp.done /\ resp.next_id = FIM

\* C11: on a graph without a node "fim", advance with current_id = "fim",
\* the next_id of a finished interview, returns the invalid-step response
\* for every answer and appends nothing to the history.
C11_PastTheEndIsInvalid ==
    [][(Handling /\ req.current_id = FIM /\ FIM \notin DOMAIN QUESTIONS) =>
        /\ resp' = [kind |-> "response", message |-> MSG_INVALID,
                    next_id |-> None, done |-> TRUE]
        /\ HistoryOf(SESSIONS', req.session_id)
              = HistoryOf(SESSIONS, req.session_id)]_vars

\* C11 witness: the interview of the session is stored as finished and the
\* client answers once more with the id it was given.
C11_Witness ==
    /\ Handled /\ req.current_id = FIM /\ req.answer = <<"y","e","s">>
    /\ FIM \notin DOMAIN QUESTIONS
    /\ req.session_id \in DOMAIN db
    /\ db[req.session_id].answers_json.current_id = FIM
    /\ db[req.session_id].answers_json.done
    /\ resp.message = MSG_INVALID

\* C12: after every advance call that returns a non-fatal result, the start
\* of the session included, the stored snapshot of the session is
\* {current_id: next_id, done, history} of that response and that moment.
C12_SnapshotFollowsEveryResult ==
    (Handled /\ resp.kind = "response" /\ ~(resp.done /\ resp.next_id = None)
        /\ storage_log # <<"upsert_failed">>)
        => /\ req.session_id \in DOMAIN db
           /\ db[req.session_id].answers_json
                = [current_id |-> resp.next_id, done |-> resp.done,
                   history |-> HistoryOf(SESSIONS, req.session_id)]

\* C13: a failed snapshot upsert neither blocks nor alters the result of
\* advance: the response and the in-memory history are those of the same
\* call with a working table, and no error reaches the caller.
C13_UpsertFaultIsSwallowed ==
    [][(Handling /\ storage_log' = <<"upsert_failed">>) =>
        LET r == interview_next(QUESTIONS, SESSIONS, db, req.session_id,
                                req.current_id, req.answer, TRUE)
        IN  /\ resp' = r.resp
            /\ resp'.kind = "response"
            /\ SESSIONS' = r.SESSIONS]_vars

\* C13 witness: the answer is in the in-memory history and the next
\* question was returned although the upsert failed and nothing is stored.
C13_Witness ==
    /\ Handled /\ storage_log = <<"upsert_failed">>
    /\ req.session_id \notin DOMAIN db
    /\ Len(HistoryOf(SESSIONS, req.session_id)) = 1
    /\ resp.kind = "response" /\ resp.next_id = Q2

\* The handler of /briefing has just run on req.
Briefed == pc = "done" /\ req.op = "briefing"

\* The handler of /reset is running on req in this step.
Resetting == pc = "pending" /\ req.op = "reset" /\ pc' = "done"

\* The history of the stored snapshot of a session ([] when there is no
\* row or no snapshot in it).
PersistedHistory(table, session_id) ==
    IF session_id \in DOMAIN table /\ table[session_id].answers_json # NoneJson
    THEN table[session_id].answers_json.history
    ELSE <<>>

\* C14: a failure of the snapshot read of render_transcript is recovered:
\* the transcript is still produced, from the in-memory history or as the
\* placeholder.
C14_ReadFaultIsRecovered ==
    (Briefed /\ storage_log = <<"read_failed">>)
        => /\ resp.kind = "briefing"
           /\ resp.message = RenderMarkdown(req.session_id,
                                 HistoryOf(SESSIONS, req.session_id))

\* C15 as stated: after reset the history of the session is empty and a
\* transcript rendered right after shows the placeholder.
C15_ResetLeavesNothingToRender ==
    [][Resetting =>
        /\ HistoryOf(SESSIONS', req.session_id) = <<>>
        /\ build_briefing_md(SESSIONS', db', req.session_id, TRUE).message
              = RenderMarkdown(req.session_id, <<>>)]_vars

\* C15 amended: reset empties the in-memory history of the session only; the
\* stored snapshot is unchanged, and a transcript rendered right after shows
\* the stored history when it is non-empty, the placeholder otherwise.
C15_ResetClearsMemoryOnly ==
    [][Resetting =>
        /\ HistoryOf(SESSIONS', req.session_id) = <<>>
        /\ db' = db
        /\ build_briefing_md(SESSIONS', db', req.session_id, TRUE).message
              = RenderMarkdown(req.session_id,
                               PersistedHistory(db, req.session_id))]_vars

\* C15 witness: a transcript rendered while the session has no in-memory
\* entry any more shows the answers of the stored snapshot.
C15_Witness ==
    /\ Briefed /\ resp.kind = "briefing"
    /\ req.session_id \notin DOMAIN SESSIONS
    /\ PersistedHistory(db, req.session_id) # <<>>
    /\ resp.message = RenderMarkdown(req.session_id,
                                     PersistedHistory(db, req.session_id))
    /\ resp.message # RenderMarkdown(req.session_id, <<>>)

\* C16: render_transcript uses the history of the stored snapshot when that
\* is non-empty, else the in-memory history, and renders the placeholder
\* when both are empty or absent.
C16_PersistedHistoryPreferred ==
    (Briefed /\ resp.kind = "briefing")
        => LET stored == PersistedHistory(db, req.session_id)
               memory == HistoryOf(SESSIONS, req.session_id)
           IN  /\ stored # <<>>
                    => resp.message = RenderMarkdown(req.session_id, stored)
               /\ stored = <<>>
                    => resp.message = RenderMarkdown(req.session_id, memory)
               /\ (stored = <<>> /\ memory = <<>>)
                    => \E i \in 1..Len(resp.message) :
                          resp.message[i] = PLACEHOLDER[1]

\* C16 witness: the stored history and the in-memory history are both
\* non-empty and differ, and the transcript shows the stored one.
C16_Witness ==
    /\ Briefed /\ resp.kind = "briefing"
    /\ PersistedHistory(db, req.session_id) # <<>>
    /\ HistoryOf(SESSIONS, req.session_id) # <<>>
    /\ PersistedHistory(db, req.session_id) # HistoryOf(SESSIONS, req.session_id)
    /\ resp.message = RenderMarkdown(req.session_id,
                                     PersistedHistory(db, req.session_id))

\* The lines of a document, split at its newlines.
RECURSIVE SplitLines(_)
SplitLines(text) ==
    IF \A k \in 1..Len(text) : text[k] # "\n" THEN <<text>>
    ELSE LET k == CHOOSE k \in 1..Len(text) :
                     text[k] = "\n" /\ \A j \in 1..(k - 1) : text[j] # "\n"
         IN  <<SubSeq(text, 1, k - 1)>> \o SplitLines(SubSeq(text, k + 1, Len(text)))

\* What follows the first n characters of a line.
Drop(line, n) == SubSeq(line, n + 1, Len(line))

\* The position of the first "." of a line (0 when it has none).
FirstDot(line) ==
    IF \E k \in 1..Len(line) : line[k] = "."
    THEN CHOOSE k \in 1..Len(line) :
            line[k] = "." /\ \A j \in 1..(k - 1) : line[j] # "."
    ELSE 0

\* The subsections of a document read back: for each line "### <n>. <prompt>"
\* followed by a line "- Resposta registrada: <answer>", the number, the
\* prompt and the answer, in document order.
RECURSIVE ExtractFrom(_)
ExtractFrom(lines) ==
    IF Len(lines) < 2 THEN <<>>
    ELSE IF IsPrefix(HEADING_PREFIX, lines[1]) /\ IsPrefix(ANSWER_PREFIX, lines[2])
    THEN LET title == Drop(lines[1], Len(HEADING_PREFIX))
             dot   == FirstDot(title)
         IN  << [number   |-> SubSeq(title, 1, dot - 1),
                 question |-> Drop(title, dot + 1),
                 answer   |-> Drop(lines[2], Len(ANSWER_PREFIX))] >>
             \o ExtractFrom(Tail(Tail(lines)))
    ELSE ExtractFrom(Tail(lines))

ExtractPairs(text) == ExtractFrom(SplitLines(text))

TraceEntry1 == [id |-> START, question |-> T1, answer |-> SIM]

TraceEntry2 == [id |-> Q2, question |-> T2, answer |-> QUALQUER]

\* C18: on the two-question interview, a session with an empty history that
\* calls with no current_id gets {"Q1?", "start", not done} and keeps an
\* empty history; calling then with ("start", "sim") it gets {"Q2?", "q2",
\* not done} and its history becomes [{start, "Q1?", "sim"}]; calling then
\* with ("q2", "qualquer") it gets the finished message with next_id "fim",
\* done, and its history becomes [{start, "Q1?", "sim"}, {q2, "Q2?",
\* "qualquer"}].
C18_TwoQuestionTrace ==
    [][Handling =>
        LET before == HistoryOf(SESSIONS, req.session_id)
            after  == HistoryOf(SESSIONS', req.session_id)
        IN  /\ (before = <<>> /\ req.current_id = None)
                 => /\ resp' = [kind |-> "response", message |-> T1,
                                next_id |-> START, done |-> FALSE]
                    /\ after = <<>>
            /\ (before = <<>> /\ req.current_id = START /\ req.answer = SIM)
                 => /\ resp' = [kind |-> "response", message |-> T2,
                                next_id |-> Q2, done |-> FALSE]
                    /\ after = <<TraceEntry1>>
            /\ (before = <<TraceEntry1>> /\ req.current_id = Q2
                    /\ req.answer = QUALQUER)
                 => /\ resp' = [kind |-> "response", message |-> MSG_FINISHED,
                                next_id |-> FIM, done |-> TRUE]
                    /\ after = <<TraceEntry1, TraceEntry2>>]_vars

\* C18 witness: the third call of the trace has been served.
C18_Witness ==
    /\ Handled
    /\ QUESTIONS = GraphInterview
    /\ req.current_id = Q2 /\ req.answer = QUALQUER
    /\ HistoryOf(SESSIONS, req.session_id) = <<TraceEntry1, TraceEntry2>>
    /\ resp = [kind |-> "response", message |-> MSG_FINISHED,
               next_id |-> FIM, done |-> TRUE]

\* A handler is running on req in this step.
Serving == pc = "pending" /\ pc' = "done"

C20_MissingStartRaises ==
    [][(Handling /\ Absent(req.current_id) /\ START \notin DOMAIN QUESTIONS) =>
        /\ resp'.kind = "raised"
        /\ HistoryOf(SESSIONS', req.session_id) = HistoryOf(SESSIONS, req.session_id)
        /\ db' = db]_vars

\* C20 witness: on the graph without "start", a session that has recorded an
\* answer and stored a snapshot calls with no current_id and gets the
\* exception.
C20_Witness ==
    /\ Handled
    /\ START \notin DOMAIN QUESTIONS
    /\ Absent(req.current_id)
    /\ resp.kind = "raised"
    /\ HistoryOf(SESSIONS, req.session_id) # <<>>
    /\ req.session_id \in DOMAIN db

\* The response a caller gets when the next id decided is x: the end of the
\* interview for the sentinel, the question of node x, or the misconfigured
\* flow when x is no node.
Shown(x) ==
    IF x = FIM
    THEN [kind |-> "response", message |-> MSG_FINISHED, next_id |-> FIM, done |-> TRUE]
    ELSE IF x \in DOMAIN QUESTIONS
    THEN [kind |-> "response", message |-> QUESTIONS[x].text, next_id |-> x, done |-> FALSE]
    ELSE [kind |-> "response", message |-> MSG_MISCONFIG, next_id |-> None, done |-> TRUE]

\* C21: on a known node, an absent answer (null, empty or a null literal)
\* leaves the branch table unread, "*" and "default" included: the next id
\* is the node's "next" or, without one, "fim"; and an answer that is no
\* exact key of a table holding both "*" and "default" follows "*".
C21_EmptyAnswerSkipsBranches ==
    [][(Handling /\ KnownNode) =>
        LET curr == QUESTIONS[req.current_id]
        IN  /\ Absent(req.answer)
                 => resp' = Shown(IF "next" \in DOMAIN curr THEN curr.next ELSE FIM)
            /\ (/\ ~Absent(req.answer)
                /\ {STAR, DEFAULT} \subseteq DOMAIN TableOfCurrent
                /\ AnswerKey \notin DOMAIN TableOfCurrent)
                 => resp' = Shown(TableOfCurrent[STAR])]_vars

\* C21 witness: a node whose table holds "*" and "default" and that has no
\* "next" is called with a null-literal answer, and the interview ends.
C21_Witness ==
    /\ Handled /\ KnownNode
    /\ {STAR, DEFAULT} \subseteq DOMAIN TableOfCurrent
    /\ "next" \notin DOMAIN QUESTIONS[req.current_id]
    /\ req.answer = <<"N","O","N","E"," ">>
    /\ resp = [kind |-> "response", message |-> MSG_FINISHED, next_id |-> FIM, done |-> TRUE]

\* The handler of /briefing is running on req in this step.
Briefing == pc = "pending" /\ req.op = "briefing" /\ pc' = "done"

\* C22: make_briefing leaves the stored snapshot of the session (current_id,
\* done, history) and its in-memory history as they were; when its upsert
\* succeeds the row holds the rendered document, and a row created by it has
\* no snapshot.
C22_BriefingKeepsSnapshot ==
    [][Briefing =>
        /\ SESSIONS' = SESSIONS
        /\ req.session_id \in DOMAIN db
              => /\ req.session_id \in DOMAIN db'
                 /\ db'[req.session_id].answers_json = db[req.session_id].answers_json
        /\ storage_log' = <<"read", "upsert">>
              => /\ req.session_id \in DOMAIN db'
                 /\ db'[req.session_id].briefing_md = resp'.message
                 /\ req.session_id \notin DOMAIN db
                       => db'[req.session_id].answers_json = NoneJson
        /\ storage_log' # <<"read", "upsert">> => db' = db]_vars

\* C22 witness: a transcript has been stored in a row that holds a snapshot
\* with a recorded answer, written by an earlier advance.
C22_Witness ==
    /\ Briefed /\ storage_log = <<"read", "upsert">>
    /\ req.session_id \in DOMAIN db
    /\ db[req.session_id].briefing_md = resp.message
    /\ db[req.session_id].answers_json # NoneJson
    /\ db[req.session_id].answers_json.history # <<>>
    /\ db[req.session_id].answers_json.current_id = Q2

\* C23: a call answered with a terminal error (done, with a null next_id:
\* the invalid step or the misconfigured flow) leaves the in-memory history
\* of the session and the table as they were before the call.
C23_ErrorLeavesStateUnchanged ==
    [][(Handling /\ resp'.kind = "response" /\ resp'.done /\ resp'.next_id = None) =>
        /\ HistoryOf(SESSIONS', req.session_id) = HistoryOf(SESSIONS, req.session_id)
        /\ db' = db]_vars

\* C24: the stored history only grows: whatever advance and reset calls a
\* session id has seen, every call leaves in the table a history of which
\* the history stored before the call is a prefix.
C24_PersistedHistoryOnlyGrows ==
    [][Serving =>
        IsPrefix(PersistedHistory(db, req.session_id),
                 PersistedHistory(db', req.session_id))]_vars

\* The table says the interview of the session has ended.  Without resets
\* and with a table that never fails, this is so exactly from the first
\* call of the session that returned done with next_id "fim" until a later
\* call stores done = false.
StoredDone(table, session_id) ==
    /\ session_id \in DOMAIN table
    /\ table[session_id].answers_json # NoneJson
    /\ table[session_id].answers_json.done

\* C25: once a call of a session has returned done with next_id "fim", no
\* later call of the session (none of them after a reset) appends to its
\* history or stores done = false.
C25_FinishedIsTerminal ==
    [][(Handling /\ StoredDone(db, req.session_id)) =>
        /\ HistoryOf(SESSIONS', req.session_id) = HistoryOf(SESSIONS, req.session_id)
        /\ StoredDone(db', req.session_id)]_vars

\* C26: answers are recorded only against the node the engine last pointed
\* at, whatever current_id the client sends; the engine points at "start"
\* first, so the first entry of every history is an answer to "start".
C26_FirstEntryAnswersStart ==
    \A sid \in SessionIds :
        HistoryOf(SESSIONS, sid) # <<>> => HistoryOf(SESSIONS, sid)[1].id = START

\* C27: whenever a reset of a session runs between the statements of an
\* advance of the same session, the advance still returns a response, and
\* the snapshot in the table carries a history list, never an absent one.
C27_ResetDuringAdvanceIsHarmless ==
    /\ Handled => resp.kind = "response"
    /\ \A sid \in SessionIds :
          (sid \in DOMAIN db /\ db[sid].answers_json # NoneJson)
              => db[sid].answers_json.history # NoneList

====
